---- MODULE Spec2Model ----
(***************************************************************************)
(* The one-dimensional constrained layout engine (class SplitView) of the *)
(* splitview repository, as a state machine.                               *)
(*                                                                         *)
(* Numbers.  The engine computes with JavaScript numbers.  A size is kept  *)
(* here as an integer count of half pixels (Px units make one pixel), so   *)
(* that the halving of "split" sizing is exact; NaN (what arithmetic on    *)
(* the unset field this.size or on a missing array entry gives) and the    *)
(* two infinities are distinguished values with the IEEE rules below.      *)
(* Proportions are kept as exact fractions num/den.                        *)
(***************************************************************************)
EXTENDS Integers, Sequences, FiniteSets, TLC

(***************************************************************************)
(* JavaScript numbers                                                      *)
(***************************************************************************)
\* model units per pixel: size / 2 of an integer pixel size is representable
Px == 2
\* Number.POSITIVE_INFINITY; every finite quantity of the model is far smaller
Infinity == 1000000
NegInfinity == 0 - Infinity
\* the result of arithmetic on undefined
NaN == 0 - 7777777

IsNaN(x) == x = NaN
IsFinite(x) == x # NaN /\ x # Infinity /\ x # NegInfinity

\* a + b
Plus(a, b) ==
  IF a = NaN \/ b = NaN THEN NaN
  ELSE IF a = Infinity THEN (IF b = NegInfinity THEN NaN ELSE Infinity)
  ELSE IF a = NegInfinity THEN (IF b = Infinity THEN NaN ELSE NegInfinity)
  ELSE IF b = Infinity \/ b = NegInfinity THEN b
  ELSE a + b

\* -a
Negate(a) ==
  IF a = NaN THEN NaN
  ELSE IF a = Infinity THEN NegInfinity
  ELSE IF a = NegInfinity THEN Infinity
  ELSE 0 - a

\* a - b
Minus(a, b) == Plus(a, Negate(b))

\* Math.min(a, b), Math.max(a, b): NaN if either argument is NaN
MathMin(a, b) == IF a = NaN \/ b = NaN THEN NaN ELSE IF a < b THEN a ELSE b
MathMax(a, b) == IF a = NaN \/ b = NaN THEN NaN ELSE IF a > b THEN a ELSE b

\* a > b, a < b, a >= b: false when either side is NaN
Greater(a, b) == a # NaN /\ b # NaN /\ a > b
Less(a, b) == a # NaN /\ b # NaN /\ a < b
GreaterEq(a, b) == a # NaN /\ b # NaN /\ a >= b

\* Math.round(x) of a finite x given in model units: nearest whole pixel, half up
MathRound(x) == IF IsFinite(x) THEN Px * ((2 * x + Px) \div (2 * Px)) ELSE x

\* Math.floor(n / d) of finite operands (n in model units, d a count) in whole pixels
MathFloorDiv(n, d) ==
  IF n = NaN \/ d = 0 THEN NaN ELSE Px * (n \div (d * Px))

\* x / 2 of a finite x; the model holds it when x is an even count of units
Half(x) == IF IsFinite(x) THEN x \div 2 ELSE x
HasHalf(x) == ~IsFinite(x) \/ x % 2 = 0

\* arr.reduce((r, x) => r + x, 0)
RECURSIVE SumSeq(_)
SumSeq(s) == IF s = << >> THEN 0 ELSE Plus(SumSeq(SubSeq(s, 1, Len(s) - 1)), s[Len(s)])

(***************************************************************************)
(* The views offered to the engine (IBaseView): minimumSize, maximumSize   *)
(* and the optional snapSize, in pixels.  NoSnap stands for an absent      *)
(* snapSize.                                                               *)
(***************************************************************************)
NoSnap == 0 - 1

\* the views of Spec: 1 has a minimum and no maximum, 2 can be empty and is
\* bounded above, 3 is bounded and declares a snapSize below its minimum
ViewIds == {1, 2, 3}
\* the views of the worked scenarios: two items of minimum 50 (5 and 6), one
\* of minimum 90 (7), none with a maximum
ScenarioViewIds == {5, 6, 7}
\* three items of the same minimum 50 and no maximum (the panels of the
\* Simple story)
EqualViewIds == {5, 6, 8}

\* the panes (PaneviewPanel): 20 keeps the default body bounds, 30 has a
\* bounded body; as a view of the engine a pane is p while collapsed and
\* p + 1 while expanded, so that its bounds follow its expansion state
PaneIds == {20, 30}
PaneViewIds == {p + x : p \in PaneIds, x \in {0, 1}}
viewOf(p, expanded) == IF expanded THEN p + 1 ELSE p
paneOf(v) == IF v \in PaneIds THEN v ELSE v - 1
\* isExpanded(), read through the view
isExpanded(v) == v \notin PaneIds

\* PaneviewPanel.headerSize, _minimumBodySize, _maximumBodySize, in pixels
headerSize == 22
minimumBodySize(p) == IF p = 30 THEN 1 ELSE 0
maximumBodySize(p) == IF p = 30 THEN 3 ELSE Infinity

minimumSize(v) ==
  IF v \in PaneViewIds
    THEN Px * (headerSize + (IF isExpanded(v) THEN minimumBodySize(paneOf(v)) ELSE 0))
    ELSE
  Px * (CASE v = 1 -> 1 [] v = 2 -> 0 [] v = 3 -> 2
          [] v = 5 -> 50 [] v = 6 -> 50 [] v = 7 -> 90 [] v = 8 -> 50
          [] OTHER -> 0)

maximumSize(v) ==
  IF v \in PaneViewIds
    THEN Plus(Px * headerSize,
              IF ~isExpanded(v) THEN 0
              ELSE IF maximumBodySize(paneOf(v)) = Infinity THEN Infinity
              ELSE Px * maximumBodySize(paneOf(v)))
    ELSE
  CASE v = 1 -> Infinity [] v = 2 -> Px * 3 [] v = 3 -> Px * 4 [] OTHER -> Infinity

snapSize(v) == IF v = 3 THEN Px * 1 ELSE NoSnap

hasSnap(v) == snapSize(v) # NoSnap

(***************************************************************************)
(* Helpers imported from ../util (clamp, clampView, range, pushToStart,    *)
(* pushToEnd).  Index sequences hold the code's 0-based indexes.           *)
(***************************************************************************)
\* clamp(value, min, max): the value brought into [min, max]
clamp(value, min, max) == MathMin(max, MathMax(value, min))

\* clampView(view, size): the size clamped to the view's bounds; a view that
\* declares a snapSize collapses to 0 below its snap threshold
clampView(v, size) ==
  IF ~hasSnap(v) \/ ~Less(size, minimumSize(v))
    THEN clamp(size, minimumSize(v), maximumSize(v))
    ELSE IF size < MathMin(snapSize(v), minimumSize(v)) THEN 0 ELSE minimumSize(v)

\* range(from, to): from, from+1, .., to-1, or from, from-1, .., to+1
range(from, to) ==
  IF from <= to THEN [k \in 1..(to - from) |-> from + k - 1]
  ELSE [k \in 1..(from - to) |-> from - k + 1]

Contains(arr, value) == \E k \in DOMAIN arr : arr[k] = value
Without(arr, value) == SelectSeq(arr, LAMBDA x : x # value)

\* pushToStart(arr, value), pushToEnd(arr, value): move a member to the front, the back
pushToStart(arr, value) ==
  IF Contains(arr, value) THEN <<value>> \o Without(arr, value) ELSE arr
pushToEnd(arr, value) ==
  IF Contains(arr, value) THEN Without(arr, value) \o <<value>> ELSE arr

RECURSIVE pushAllToStart(_, _)
pushAllToStart(arr, values) ==
  IF values = << >> THEN arr
  ELSE pushAllToStart(pushToStart(arr, Head(values)), Tail(values))

RECURSIVE pushAllToEnd(_, _)
pushAllToEnd(arr, values) ==
  IF values = << >> THEN arr
  ELSE pushAllToEnd(pushToEnd(arr, Head(values)), Tail(values))

(***************************************************************************)
(* IViewItem sequences.  An item is [view |-> id, size |-> number].        *)
(***************************************************************************)
\* this.views.map((x) => x.size)
SizesOf(vs) == [k \in DOMAIN vs |-> vs[k].size]

\* this.views.reduce((r, i) => r + i.size, 0)
ContentOf(vs) == SumSeq(SizesOf(vs))

\* sizes[i] for a 0-based i; a missing entry is undefined, NaN in arithmetic
SizeAt(sizes, i) == IF (i + 1) \in DOMAIN sizes THEN sizes[i + 1] ELSE NaN

\* the minimum resize counts for a view: 0 when it declares a snapSize
effectiveMinimum(v) == IF hasSnap(v) THEN 0 ELSE minimumSize(v)

\* splice(index, 0, item) and splice(index, 1) for 0 <= index <= Len
InsertAt(s, index, x) == SubSeq(s, 1, index) \o <<x>> \o SubSeq(s, index + 1, Len(s))
RemoveAt(s, index) == SubSeq(s, 1, index) \o SubSeq(s, index + 2, Len(s))

(***************************************************************************)
(* SplitView.resize                                                        *)
(***************************************************************************)
\* an up-side processing order with the priorities exchanged: high to the
\* back, low to the front
resizeUpIndexes_priorityExchanged(vs, index, low, high) ==
  pushAllToEnd(pushAllToStart(range(index, 0 - 1), low), high)

resizeUpIndexes(vs, index, low, high) ==
  pushAllToEnd(pushAllToStart(range(index, 0 - 1), high), low)

resizeDownIndexes(vs, index, low, high) ==
  pushAllToEnd(pushAllToStart(range(index + 1, Len(vs)), high), low)

RECURSIVE sumMinDeltaUp(_, _, _)
sumMinDeltaUp(vs, sizes, idx) ==
  IF idx = << >> THEN 0
  ELSE LET i == idx[Len(idx)]
       IN Minus(Plus(sumMinDeltaUp(vs, sizes, SubSeq(idx, 1, Len(idx) - 1)),
                     effectiveMinimum(vs[i + 1].view)),
                SizeAt(sizes, i))

RECURSIVE sumMaxDeltaUp(_, _, _)
sumMaxDeltaUp(vs, sizes, idx) ==
  IF idx = << >> THEN 0
  ELSE LET i == idx[Len(idx)]
       IN Minus(Plus(sumMaxDeltaUp(vs, sizes, SubSeq(idx, 1, Len(idx) - 1)),
                     maximumSize(vs[i + 1].view)),
                SizeAt(sizes, i))

RECURSIVE sumMaxDeltaDown(_, _, _)
sumMaxDeltaDown(vs, sizes, idx) ==
  IF idx = << >> THEN 0
  ELSE LET i == idx[Len(idx)]
       IN Minus(Plus(sumMaxDeltaDown(vs, sizes, SubSeq(idx, 1, Len(idx) - 1)),
                     SizeAt(sizes, i)),
                effectiveMinimum(vs[i + 1].view))

RECURSIVE sumMinDeltaDown(_, _, _)
sumMinDeltaDown(vs, sizes, idx) ==
  IF idx = << >> THEN 0
  ELSE LET i == idx[Len(idx)]
       IN Minus(Plus(sumMinDeltaDown(vs, sizes, SubSeq(idx, 1, Len(idx) - 1)),
                     SizeAt(sizes, i)),
                maximumSize(vs[i + 1].view))

minDeltaUp(vs, index, sizes, low, high) ==
  sumMinDeltaUp(vs, sizes, resizeUpIndexes(vs, index, low, high))
maxDeltaUp(vs, index, sizes, low, high) ==
  sumMaxDeltaUp(vs, sizes, resizeUpIndexes(vs, index, low, high))
maxDeltaDown(vs, index, sizes, low, high) ==
  LET downIndexes == resizeDownIndexes(vs, index, low, high)
  IN IF Len(downIndexes) = 0 THEN Infinity ELSE sumMaxDeltaDown(vs, sizes, downIndexes)
minDeltaDown(vs, index, sizes, low, high) ==
  LET downIndexes == resizeDownIndexes(vs, index, low, high)
  IN IF Len(downIndexes) = 0 THEN NegInfinity ELSE sumMinDeltaDown(vs, sizes, downIndexes)

\* a tentativeDelta that never lets the up side shrink
tentativeDelta_growOnly(vs, index, delta, sizes, low, high) ==
  clamp(MathMax(delta, 0),
        MathMax(minDeltaUp(vs, index, sizes, low, high), minDeltaDown(vs, index, sizes, low, high)),
        MathMin(maxDeltaDown(vs, index, sizes, low, high), maxDeltaUp(vs, index, sizes, low, high)))

\* const tentativeDelta = clamp(delta, minDelta, maxDelta)
tentativeDelta(vs, index, delta, sizes, low, high) ==
  clamp(delta,
        MathMax(minDeltaUp(vs, index, sizes, low, high), minDeltaDown(vs, index, sizes, low, high)),
        MathMin(maxDeltaDown(vs, index, sizes, low, high), maxDeltaUp(vs, index, sizes, low, high)))

\* the loop over upItems; st = [views, deltaUp, actualDelta]
RECURSIVE applyUp(_, _, _, _)
applyUp(st, upIndexes, sizes, k) ==
  IF k > Len(upIndexes) THEN st
  ELSE LET i == upIndexes[k]
           size == clampView(st.views[i + 1].view, Plus(SizeAt(sizes, i), st.deltaUp))
           viewDelta == Minus(size, SizeAt(sizes, i))
       IN applyUp([views |-> [st.views EXCEPT ![i + 1].size = size],
                   deltaUp |-> Minus(st.deltaUp, viewDelta),
                   actualDelta |-> Plus(st.actualDelta, viewDelta)],
                  upIndexes, sizes, k + 1)

\* the loop over downItems; st = [views, deltaDown]
RECURSIVE applyDown(_, _, _, _)
applyDown(st, downIndexes, sizes, k) ==
  IF k > Len(downIndexes) THEN st
  ELSE LET i == downIndexes[k]
           size == clampView(st.views[i + 1].view, Minus(SizeAt(sizes, i), st.deltaDown))
           viewDelta == Minus(size, SizeAt(sizes, i))
       IN applyDown([views |-> [st.views EXCEPT ![i + 1].size = size],
                     deltaDown |-> Plus(st.deltaDown, viewDelta)],
                    downIndexes, sizes, k + 1)

\* resize reads this.views[index]: with index = this.views.length that is
\* undefined and reading its .view is a TypeError
resizeThrows(vs, index) == index >= 0 /\ index = Len(vs)

\* the views after resize(index, delta, sizes, lowPriorityIndexes, highPriorityIndexes)
resize(vs, index, delta, sizes, low, high) ==
  IF index < 0 \/ index > Len(vs) \/ resizeThrows(vs, index) THEN vs
  ELSE LET up == applyUp([views |-> vs,
                          deltaUp |-> tentativeDelta(vs, index, delta, sizes, low, high),
                          actualDelta |-> 0],
                         resizeUpIndexes(vs, index, low, high), sizes, 1)
       IN applyDown([views |-> up.views, deltaDown |-> up.actualDelta],
                    resizeDownIndexes(vs, index, low, high), sizes, 1).views

(***************************************************************************)
(* SplitView.distributeEmptySpace                                          *)
(***************************************************************************)
RECURSIVE distributeLoop(_, _, _)
distributeLoop(vs, emptyDelta, i) ==
  IF emptyDelta = 0 \/ i < 0 THEN vs
  ELSE LET size == clampView(vs[i + 1].view, Plus(vs[i + 1].size, emptyDelta))
           viewDelta == Minus(size, vs[i + 1].size)
       IN distributeLoop([vs EXCEPT ![i + 1].size = size], Minus(emptyDelta, viewDelta), i - 1)

distributeEmptySpace(vs, total) ==
  distributeLoop(vs, Minus(total, ContentOf(vs)), Len(vs) - 1)

(***************************************************************************)
(* The SplitView object.  Operators take and return the object as a record *)
(* e = [views, sashes, size, contentSize, proportions, threw, fresh,       *)
(*      subscribed, receipts, received]:                                   *)
(*   views        IViewItem[]                                              *)
(*   sashes       ISashItem[], each sash a distinct identity               *)
(*   size         the container size; NaN while the field is unset         *)
(*   contentSize  NaN while the field is unset                             *)
(*   proportions  [num, den]: _proportions[i] = num[i] / den; den = 0      *)
(*                while the field is unset                                 *)
(*   threw        the running operation ended in a TypeError               *)
(*   fresh        history: _proportions was assigned since the most recent *)
(*                splice of this.views                                     *)
(*   subscribed   the views whose onDidChange event the engine listens to  *)
(*   receipts     how many times the running operation has called the      *)
(*                views' layout(size, orthogonalSize)                      *)
(*   received     the sizes the running operation passed last to the views'*)
(*                layout, in the order of this.views; << >> before any call*)
(***************************************************************************)
NoProportions == [num |-> << >>, den |-> 0]

\* Math.round(this._proportions[i] * size) for a 0-based i
proportionalSize(props, i, total) ==
  IF (i + 1) \notin DOMAIN props.num THEN NaN
  ELSE IF props.num[i + 1] = NaN \/ total = NaN THEN NaN
  ELSE Px * ((2 * props.num[i + 1] * total + props.den * Px) \div (2 * props.den * Px))

\* saveProportions()
saveProportions(e) ==
  IF Greater(e.contentSize, 0)
    THEN [e EXCEPT !.proportions = [num |-> SizesOf(e.views), den |-> e.contentSize],
                   !.fresh = TRUE]
    ELSE e

\* layoutViews(): recomputes contentSize and hands every view its size
layoutViews(e) ==
  [e EXCEPT !.contentSize = ContentOf(e.views),
            !.receipts = e.receipts + 1,
            !.received = SizesOf(e.views)]

\* relayout(lowPriorityIndexes)
relayout(e, low) ==
  saveProportions(layoutViews(
    [e EXCEPT !.views = resize(e.views, Len(e.views) - 1,
                               Minus(e.size, ContentOf(e.views)),
                               SizesOf(e.views), low, << >>)]))

\* a getViewSize that moves an index out of range to the nearest item
getViewSize_nearestItem(e, index) ==
  IF e.views = << >> THEN 0 - Px
  ELSE IF index < 0 THEN e.views[1].size
  ELSE IF index >= Len(e.views) THEN e.views[Len(e.views)].size
  ELSE e.views[index + 1].size

\* getViewSize(index): -1 for an index out of range
getViewSize(e, index) ==
  IF index < 0 \/ index >= Len(e.views) THEN 0 - Px ELSE e.views[index + 1].size

\* distributeViewSizes()
isFlexible(v) == Greater(Minus(maximumSize(v), minimumSize(v)), 0)

flexibleSize(vs) ==
  SumSeq(SizesOf(SelectSeq(vs, LAMBDA item : isFlexible(item.view))))

flexibleCount(vs) == Len(SelectSeq(vs, LAMBDA item : isFlexible(item.view)))

\* a distributeViewSizes that leaves out the closing relayout
distributeViewSizes_withoutRelayout(e) ==
  LET size == MathFloorDiv(flexibleSize(e.views), flexibleCount(e.views))
  IN [e EXCEPT !.views =
        [k \in DOMAIN e.views |->
           IF isFlexible(e.views[k].view)
             THEN [e.views[k] EXCEPT !.size =
                     clamp(size, minimumSize(e.views[k].view), maximumSize(e.views[k].view))]
             ELSE e.views[k]]]

distributeViewSizes(e) ==
  LET size == MathFloorDiv(flexibleSize(e.views), flexibleCount(e.views))
  IN relayout([e EXCEPT !.views =
                 [k \in DOMAIN e.views |->
                    IF isFlexible(e.views[k].view)
                      THEN [e.views[k] EXCEPT !.size =
                              clamp(size, minimumSize(e.views[k].view), maximumSize(e.views[k].view))]
                      ELSE e.views[k]]],
              << >>)

\* a sash item: its element is a fresh div of class "sash"
newSash == "sash"

\* the size addView gives the new item; sizing is [type |-> "number", size |-> n],
\* [type |-> "split", index |-> i] or [type |-> "distribute"]
viewSize(e, v, sizing) ==
  IF sizing.type = "number" THEN sizing.size
  ELSE IF sizing.type = "split" THEN Half(getViewSize(e, sizing.index))
  ELSE minimumSize(v)

\* an addView whose relayout has no low-priority index
addView_withoutPriority(e, v, sizing, index, skipLayout) ==
  IF sizing.type = "undefined"
    THEN [e EXCEPT !.subscribed = e.subscribed \cup {v}, !.threw = TRUE] ELSE
  LET item == [view |-> v, size |-> viewSize(e, v, sizing)]
      vs == InsertAt(e.views, index, item)
      added == [e EXCEPT !.views = vs,
                         !.fresh = FALSE,
                         !.subscribed = e.subscribed \cup {v},
                         !.sashes = IF Len(vs) > 1 THEN Append(e.sashes, newSash)
                                    ELSE e.sashes]
      laidOut == IF skipLayout THEN added ELSE relayout(added, << >>)
  IN IF ~skipLayout /\ sizing.type = "distribute" THEN distributeViewSizes(laidOut)
     ELSE laidOut

\* addView(view, sizing, index, skipLayout); with the size argument left out
\* (sizing.type = "undefined") size.type is a TypeError, after the subscription
addView(e, v, sizing, index, skipLayout) ==
  IF sizing.type = "undefined"
    THEN [e EXCEPT !.subscribed = e.subscribed \cup {v}, !.threw = TRUE] ELSE
  LET item == [view |-> v, size |-> viewSize(e, v, sizing)]
      vs == InsertAt(e.views, index, item)
      added == [e EXCEPT !.views = vs,
                         !.fresh = FALSE,
                         !.subscribed = e.subscribed \cup {v},
                         !.sashes = IF Len(vs) > 1 THEN Append(e.sashes, newSash)
                                    ELSE e.sashes]
      laidOut == IF skipLayout THEN added ELSE relayout(added, <<index>>)
  IN IF ~skipLayout /\ sizing.type = "distribute" THEN distributeViewSizes(laidOut)
     ELSE laidOut

\* a removeView that disposes a sash only while two items remain
removeView_keepsLastSash(e, index, sizing) ==
  IF index >= Len(e.views) THEN [e EXCEPT !.threw = TRUE]
  ELSE LET vs == RemoveAt(e.views, index)
           removed == [e EXCEPT !.views = vs,
                                !.fresh = FALSE,
                                !.subscribed = e.subscribed \ {e.views[index + 1].view},
                                !.sashes = IF Len(vs) >= 2
                                             THEN RemoveAt(e.sashes, IF index - 1 > 0 THEN index - 1 ELSE 0)
                                             ELSE e.sashes]
           settled == relayout(removed, << >>)
           filled == [settled EXCEPT !.views = distributeEmptySpace(settled.views, settled.size)]
       IN IF sizing = "distribute" THEN distributeViewSizes(filled) ELSE filled

\* a removeView whose viewItem.dispose() leaves the onDidChange subscription
removeView_keepingSubscription(e, index, sizing) ==
  IF index >= Len(e.views) THEN [e EXCEPT !.threw = TRUE]
  ELSE LET vs == RemoveAt(e.views, index)
           removed == [e EXCEPT !.views = vs,
                                !.fresh = FALSE,
                                !.sashes = IF Len(vs) >= 1
                                             THEN RemoveAt(e.sashes, IF index - 1 > 0 THEN index - 1 ELSE 0)
                                             ELSE e.sashes]
           settled == relayout(removed, << >>)
           filled == [settled EXCEPT !.views = distributeEmptySpace(settled.views, settled.size)]
       IN IF sizing = "distribute" THEN distributeViewSizes(filled) ELSE filled

\* removeView(index, sizing): splice finds nothing at an index past the end and
\* viewItem.dispose() is then a TypeError
removeView(e, index, sizing) ==
  IF index >= Len(e.views) THEN [e EXCEPT !.threw = TRUE]
  ELSE LET vs == RemoveAt(e.views, index)
           removed == [e EXCEPT !.views = vs,
                                !.fresh = FALSE,
                                !.subscribed = e.subscribed \ {e.views[index + 1].view},
                                !.sashes = IF Len(vs) >= 1
                                             THEN RemoveAt(e.sashes, IF index - 1 > 0 THEN index - 1 ELSE 0)
                                             ELSE e.sashes]
           settled == relayout(removed, << >>)
           filled == [settled EXCEPT !.views = distributeEmptySpace(settled.views, settled.size)]
       IN IF sizing = "distribute" THEN distributeViewSizes(filled) ELSE filled

\* a moveView that reads the size at from after the removal
moveView_sizeAfterRemoval(e, from, to) ==
  LET removed == removeView(e, from, "none")
  IN IF removed.threw THEN removed
     ELSE addView(removed, e.views[from + 1].view,
                  [type |-> "number", size |-> getViewSize(removed, from)], to, FALSE)

\* moveView(from, to)
moveView(e, from, to) ==
  LET removed == removeView(e, from, "none")
  IN IF removed.threw THEN removed
     ELSE addView(removed, e.views[from + 1].view,
                  [type |-> "number", size |-> getViewSize(e, from)], to, FALSE)

\* a layout that snapshots the proportions of the sizes it has just allocated
layout_savingProportions(e, total) ==
  IF e.views # << >> /\ e.proportions.den = 0
    THEN [e EXCEPT !.size = total, !.threw = TRUE]
    ELSE saveProportions(layoutViews(
           [e EXCEPT !.size = total,
                     !.views = distributeEmptySpace(
                                 [k \in DOMAIN e.views |->
                                    [e.views[k] EXCEPT !.size =
                                       clampView(e.views[k].view,
                                                 proportionalSize(e.proportions, k - 1, total))]],
                                 total)]))

\* a layout that gives every item the share 1 / this.views.length
layout_equalShares(e, total) ==
  IF e.views # << >> /\ e.proportions.den = 0
    THEN [e EXCEPT !.size = total, !.threw = TRUE]
    ELSE layoutViews(
           [e EXCEPT !.size = total,
                     !.views = distributeEmptySpace(
                                 [k \in DOMAIN e.views |->
                                    [e.views[k] EXCEPT !.size =
                                       clampView(e.views[k].view,
                                                 proportionalSize(
                                                   [num |-> [j \in DOMAIN e.views |-> 1],
                                                    den |-> Len(e.views)], k - 1, total))]],
                                 total)])

\* layout(size, orthogonalSize): reading this._proportions[i] of the unset
\* field is a TypeError
layout(e, total) ==
  IF e.views # << >> /\ e.proportions.den = 0
    THEN [e EXCEPT !.size = total, !.threw = TRUE]
    ELSE layoutViews(
           [e EXCEPT !.size = total,
                     !.views = distributeEmptySpace(
                                 [k \in DOMAIN e.views |->
                                    [e.views[k] EXCEPT !.size =
                                       clampView(e.views[k].view,
                                                 proportionalSize(e.proportions, k - 1, total))]],
                                 total)])

\* resizeView(index, size)
resizeView(e, index, requested) ==
  IF index < 0 \/ index >= Len(e.views) THEN e
  ELSE relayout([e EXCEPT !.views[index + 1].size =
                   clamp(MathRound(requested),
                         minimumSize(e.views[index + 1].view),
                         MathMin(maximumSize(e.views[index + 1].view), e.size))],
                << >>)

\* this.views.indexOf(item) for the item of view v, -1 if it is not managed
indexOfView(vs, v) ==
  IF \E k \in DOMAIN vs : vs[k].view = v
    THEN (CHOOSE k \in DOMAIN vs : vs[k].view = v) - 1
    ELSE 0 - 1

\* an onDidChange that relays out without the low-priority index
onDidChange_withoutPriority(e, v, requested) ==
  LET index == indexOfView(e.views, v)
  IN IF index < 0 THEN e
     ELSE LET asked == IF requested = NaN THEN e.views[index + 1].size ELSE requested
              vs == [e.views EXCEPT ![index + 1].size =
                       clamp(asked, minimumSize(v), maximumSize(v))]
              resized == resize(vs, Len(vs) - 1, Minus(e.size, ContentOf(vs)),
                                SizesOf(vs), << >>, << >>)
          IN saveProportions(layoutViews(
               [e EXCEPT !.views = distributeEmptySpace(resized, e.size)]))

\* onDidChange(item, size): requested = NaN stands for an undefined size
onDidChange(e, v, requested) ==
  LET index == indexOfView(e.views, v)
  IN IF index < 0 THEN e
     ELSE LET asked == IF requested = NaN THEN e.views[index + 1].size ELSE requested
              vs == [e.views EXCEPT ![index + 1].size =
                       clamp(asked, minimumSize(v), maximumSize(v))]
              resized == resize(vs, Len(vs) - 1, Minus(e.size, ContentOf(vs)),
                                SizesOf(vs), <<index>>, << >>)
          IN saveProportions(layoutViews(
               [e EXCEPT !.views = distributeEmptySpace(resized, e.size)]))

\* a mousemove listener that resizes from the current sizes, not the baseline
mousemove_fromCurrentSizes(e, d, x) ==
  IF resizeThrows(e.views, d.index) THEN [e EXCEPT !.threw = TRUE]
  ELSE layoutViews(
         [e EXCEPT !.views = distributeEmptySpace(
                               resize(e.views, d.index, x - d.start, SizesOf(e.views), << >>, << >>),
                               e.size)])

\* one mousemove listener of a drag d = [index, sizes, start] at pointer coordinate x
mousemove(e, d, x) ==
  IF resizeThrows(e.views, d.index) THEN [e EXCEPT !.threw = TRUE]
  ELSE layoutViews(
         [e EXCEPT !.views = distributeEmptySpace(
                               resize(e.views, d.index, x - d.start, d.sizes, << >>, << >>),
                               e.size)])

\* every registered mousemove listener, in registration order
RECURSIVE mousemoveAll(_, _, _)
mousemoveAll(e, ds, x) ==
  IF ds = << >> THEN e ELSE mousemoveAll(mousemove(e, Head(ds), x), Tail(ds), x)

\* every registered end listener: each saves the proportions
RECURSIVE endAll(_, _)
endAll(e, ds) == IF ds = << >> THEN e ELSE endAll(saveProportions(e), Tail(ds))

\* the engine before the constructor reads its options
blank ==
  [views |-> << >>, sashes |-> << >>, size |-> NaN, contentSize |-> NaN,
   proportions |-> NoProportions, threw |-> FALSE, fresh |-> FALSE,
   subscribed |-> {}, receipts |-> 0, received |-> << >>]

\* options.descriptor.views.forEach: addView(view, size, index, true) from
\* the index i on
RECURSIVE addDescribed(_, _, _)
addDescribed(e, described, i) ==
  IF i >= Len(described) THEN e
  ELSE addDescribed(addView(e, described[i + 1].view,
                            [type |-> "number", size |-> described[i + 1].size], i, TRUE),
                    described, i + 1)

\* new SplitView(container, { orientation, descriptor })
construct(descriptor) ==
  LET filled == addDescribed([blank EXCEPT !.size = descriptor.size], descriptor.views, 0)
  IN saveProportions([filled EXCEPT !.contentSize = ContentOf(filled.views)])

(***************************************************************************)
(* State                                                                   *)
(***************************************************************************)
VARIABLES
  views,        \* this.views
  sashes,       \* this.sashes
  size,         \* this.size
  contentSize,  \* this.contentSize
  proportions,  \* this._proportions
  fresh,        \* history: _proportions assigned since the last splice of views
  subscribed,   \* the views whose onDidChange subscription is live
  receipts,     \* the calls of the views' layout made by the last operation
  received,     \* the sizes the last operation passed last to the views' layout
  phase,        \* history: "Dragging" from a mousedown on a sash to the next mouseup
  drags,        \* the drags whose mousemove / mouseup listeners are on the document
  last,         \* the operation that ran last: [op, threw]
  panes         \* the panes: _isExpanded, body attached, pending timers, events fired last

vars ==
  <<views, sashes, size, contentSize, proportions, fresh, subscribed, receipts,
    received, phase, drags, last, panes>>

\* bounds of the model
MaxViews == 3
MaxTotal == 4
MaxCoord == 2
MaxDrags == 1
MaxNestedDrags == 2
MaxOverrun == 2

Totals == {Px * t : t \in 0..MaxTotal}
Coords == {Px * x : x \in 0..MaxCoord}

Sizings(e) ==
  {[type |-> "number", size |-> n] : n \in Totals}
    \cup {[type |-> "split", index |-> i] : i \in {j \in 0..(Len(e.views) - 1) : HasHalf(e.views[j + 1].size)}}
    \cup {[type |-> "distribute"]}

this ==
  [views |-> views, sashes |-> sashes, size |-> size, contentSize |-> contentSize,
   proportions |-> proportions, threw |-> FALSE, fresh |-> fresh,
   subscribed |-> subscribed, receipts |-> 0, received |-> << >>]

Managed(vs) == {vs[k].view : k \in DOMAIN vs}

\* the engine's fields after an operation
CommitEngine(e, op, arg) ==
  /\ views' = e.views
  /\ sashes' = e.sashes
  /\ size' = e.size
  /\ contentSize' = e.contentSize
  /\ proportions' = e.proportions
  /\ fresh' = e.fresh
  /\ subscribed' = e.subscribed
  /\ receipts' = e.receipts
  /\ received' = e.received
  /\ last' = [op |-> op, threw |-> e.threw]

\* an operation of the engine: it reaches no pane
Commit(e, op, arg) == CommitEngine(e, op, arg) /\ UNCHANGED panes

\* new PaneviewPanel(id, component, headerComponent, orientation, isExpanded):
\* render() attaches the body, no timer is set
newPane(expanded) == [expanded |-> expanded, body |-> TRUE, timers |-> 0, fired |-> << >>]

\* new SplitView(container, { orientation }): no descriptor
Init ==
  /\ views = << >>
  /\ sashes = << >>
  /\ size = NaN
  /\ contentSize = NaN
  /\ proportions = NoProportions
  /\ fresh = FALSE
  /\ subscribed = {}
  /\ receipts = 0
  /\ received = << >>
  /\ phase = "Idle"
  /\ drags = << >>
  /\ last = [op |-> "new", threw |-> FALSE]
  /\ panes = [p \in PaneIds |-> newPane(FALSE)]

Layout(total) ==
  /\ Commit(layout(this, total), "layout", total)
  /\ UNCHANGED <<drags, phase>>

AddView(v, sizing, index, skipLayout) ==
  /\ Len(views) < MaxViews
  /\ v \notin Managed(views)
  /\ Commit(addView(this, v, sizing, index, skipLayout),
            IF skipLayout THEN "addViewSkipLayout" ELSE "addView", index)
  /\ UNCHANGED <<drags, phase>>

RemoveView(index, sizing) ==
  /\ Commit(removeView(this, index, sizing), "removeView", index)
  /\ UNCHANGED <<drags, phase>>

MoveView(from, to) ==
  /\ Commit(moveView(this, from, to), "moveView", to)
  /\ UNCHANGED <<drags, phase>>

ResizeView(index, requested) ==
  /\ Commit(resizeView(this, index, requested), "resizeView", index)
  /\ UNCHANGED <<drags, phase>>

DistributeViewSizes ==
  /\ Commit(distributeViewSizes(this), "distributeViewSizes", 0)
  /\ UNCHANGED <<drags, phase>>

\* an event nothing listens to
unheard(name) ==
  CASE name = "mousemove" -> "unheard mousemove"
    [] name = "mouseup" -> "unheard mouseup"
    [] OTHER -> "unheard onDidChange"

\* the handler an event ran
heard(listening, name) == IF listening THEN name ELSE unheard(name)

\* a view fires its onDidChange event
OnDidChange(v, requested) ==
  /\ Commit(IF v \in subscribed THEN onDidChange(this, v, requested) ELSE this,
            heard(v \in subscribed, "onDidChange"), indexOfView(views, v))
  /\ UNCHANGED <<drags, phase>>

\* the views on the two sides of the sash at position k
pairAt(vs, k) == [j \in {i \in 1..2 : (k + i) \in DOMAIN vs} |-> vs[k + j].view]

\* mousedown on the sash at position k with the pointer at x; grabbed is
\* history: the views the sash lay between
MouseDown(k, x) ==
  /\ Len(drags) < MaxDrags
  /\ drags' = Append(drags, [index |-> k, sizes |-> SizesOf(views), start |-> x,
                            grabbed |-> pairAt(views, k)])
  /\ phase' = "Dragging"
  /\ Commit(this, "mousedown", k)

\* mousemove on the document with the pointer at x: the mousemove listeners
\* of the drags run, none outside a drag
MouseMove(x) ==
  /\ Commit(mousemoveAll(this, drags, x), heard(drags # << >>, "mousemove"), x)
  /\ UNCHANGED <<drags, phase>>

\* a mouseup whose end listeners leave the document listeners registered
MouseUp_keepingListeners ==
  /\ Commit(endAll(this, drags), heard(drags # << >>, "mouseup"), 0)
  /\ phase' = "Idle"
  /\ UNCHANGED drags

\* mouseup on the document: the end listeners of the drags run and remove
\* the listeners
MouseUp ==
  /\ Commit(endAll(this, drags), heard(drags # << >>, "mouseup"), 0)
  /\ drags' = << >>
  /\ phase' = "Idle"

\* the engine's methods, called by the application
Call ==
  \/ \E total \in Totals : Layout(total)
  \/ \E v \in ViewIds, index \in 0..Len(views) :
       \E sizing \in Sizings(this) : AddView(v, sizing, index, FALSE)
  \/ \E index \in 0..(Len(views) - 1), sizing \in {"none", "distribute"} :
       RemoveView(index, sizing)
  \/ \E from \in 0..(Len(views) - 1), to \in 0..(Len(views) - 1) : MoveView(from, to)
  \/ \E index \in 0..(Len(views) - 1), requested \in Totals : ResizeView(index, requested)
  \/ DistributeViewSizes
  \/ \E v \in ViewIds, requested \in Totals \cup {NaN} : OnDidChange(v, requested)

\* the pointer events of the document and the sashes
Pointer ==
  \/ \E k \in 0..(Len(sashes) - 1), x \in Coords : MouseDown(k, x)
  \/ \E x \in Coords : MouseMove(x)
  \/ MouseUp

\* Spec: the application calls the engine between drags, not during one
Next ==
  \/ drags = << >> /\ Call
  \/ Pointer

Spec == Init /\ [][Next]_vars

\* a mousedown on a sash that arrives before the mouseup of the running drag
\* (the button was released where the document hears no mouseup): its cb
\* registers a second pair of listeners
MouseDownAgain(k, x) ==
  /\ drags # << >>
  /\ Len(drags) < MaxNestedDrags
  /\ drags' = Append(drags, [index |-> k, sizes |-> SizesOf(views), start |-> x,
                            grabbed |-> pairAt(views, k)])
  /\ phase' = "Dragging"
  /\ Commit(this, "mousedown", k)

\* SpecDrags: the pointer protocol with mousedowns that overlap, over engines
\* that are laid out and filled between drags
NextDrags ==
  \/ drags = << >> /\ \E total \in Totals : Layout(total)
  \/ drags = << >> /\ \E v \in ViewIds, index \in 0..Len(views) :
                         \E sizing \in Sizings(this) : AddView(v, sizing, index, FALSE)
  \/ Pointer
  \/ \E k \in 0..(Len(sashes) - 1), x \in Coords : MouseDownAgain(k, x)

SpecDrags == Init /\ [][NextDrags]_vars

\* bounds of the container sizes of SpecEqual, in pixels
MinEqualTotal == 100
MaxEqualTotal == 300

EqualTotals == {Px * t : t \in MinEqualTotal..MaxEqualTotal}

\* SpecEqual: the Simple story: the empty engine is laid out, then items of
\* the same minimum are added with distribute sizing
NextEqual ==
  \/ views = << >> /\ \E total \in EqualTotals : Layout(total)
  \/ IsFinite(size) /\ \E v \in EqualViewIds, index \in 0..Len(views) :
                          AddView(v, [type |-> "distribute"], index, FALSE)

SpecEqual == Init /\ [][NextEqual]_vars

\* bound of the sizes SpecInterleaved passes to addView and the change
\* events, in pixels
MaxInterleavedSize == 2

InterleavedSizes == {Px * n : n \in 1..MaxInterleavedSize}

\* the first event after the mousedown of a drag is still to come
Grabbed == drags # << >> /\ last.op = "mousedown"

\* SpecInterleaved: the empty engine is laid out and filled; right after the
\* mousedown of a drag the application adds or removes an item or an item
\* fires its change event, and the drag goes on
NextInterleaved ==
  \/ views = << >> /\ \E total \in Totals : Layout(total)
  \/ (drags = << >> \/ Grabbed) /\ IsFinite(size)
       /\ \E v \in ViewIds, index \in 0..Len(views), n \in InterleavedSizes :
            AddView(v, [type |-> "number", size |-> n], index, FALSE)
  \/ Grabbed /\ \E index \in 0..(Len(views) - 1) : RemoveView(index, "none")
  \/ Grabbed /\ \E v \in ViewIds, requested \in InterleavedSizes :
                   OnDidChange(v, requested)
  \/ Pointer

SpecInterleaved == Init /\ [][NextInterleaved]_vars

\* bound of the number of views of a descriptor
MaxDescribed == 2

\* the sequences of at most n distinct views with their saved sizes
RECURSIVE Described(_)
Described(n) ==
  IF n = 0 THEN {<< >>}
  ELSE Described(n - 1)
         \cup {Append(d, [view |-> v, size |-> s]) :
                 d \in {x \in Described(n - 1) : Len(x) = n - 1},
                 v \in ViewIds, s \in Totals}

Descriptors ==
  {[size |-> total, views |-> d] :
     total \in Totals,
     d \in {x \in Described(MaxDescribed) :
              \A i \in DOMAIN x, j \in DOMAIN x : i # j => x[i].view # x[j].view}}

\* new SplitView(container, { orientation, descriptor })
InitRestore ==
  \E descriptor \in Descriptors :
    /\ views = construct(descriptor).views
    /\ sashes = construct(descriptor).sashes
    /\ size = construct(descriptor).size
    /\ contentSize = construct(descriptor).contentSize
    /\ proportions = construct(descriptor).proportions
    /\ fresh = construct(descriptor).fresh
    /\ subscribed = construct(descriptor).subscribed
    /\ receipts = 0
    /\ received = << >>
    /\ phase = "Idle"
    /\ drags = << >>
    /\ last = [op |-> "new", threw |-> FALSE]
    /\ panes = [p \in PaneIds |-> newPane(FALSE)]

\* SpecRestore: the engine is constructed from a descriptor and laid out
NextRestore == \E total \in Totals : Layout(total)

SpecRestore == InitRestore /\ [][NextRestore]_vars

(***************************************************************************)
(* PaneviewPanel                                                           *)
(***************************************************************************)
\* the engine once the pane p reports the bounds of its new expansion state
retag(e, p, expanded) ==
  LET renamed(v) == IF v \in PaneViewIds /\ paneOf(v) = p THEN viewOf(p, expanded) ELSE v
  IN [e EXCEPT !.views = [k \in DOMAIN e.views |->
                            [e.views[k] EXCEPT !.view = renamed(e.views[k].view)]],
               !.subscribed = {renamed(v) : v \in e.subscribed}]

\* the events a setExpanded that changes the state fires, in order, each with
\* the _isExpanded its listeners read
firedBy(expanded) ==
  <<[event |-> "onDidChange", isExpanded |-> expanded],
    [event |-> "onDidChangeExpansionState", isExpanded |-> expanded]>>

\* setExpanded(expanded), the pane's side: the body is attached again and
\* the pending timer cleared on expand, a timer is set on collapse
setExpanded(pane, expanded) ==
  IF pane.expanded = expanded THEN [pane EXCEPT !.fired = << >>]
  ELSE [expanded |-> expanded,
        body |-> IF expanded THEN TRUE ELSE pane.body,
        timers |-> IF expanded THEN (IF pane.timers > 0 THEN pane.timers - 1 ELSE 0)
                   ELSE pane.timers + 1,
        fired |-> firedBy(expanded)]

\* a setExpanded that fires the size change before it updates _isExpanded:
\* the engine reads the bounds of the old expansion state
expansionChanged_beforeUpdate(e, p, expanded, width) ==
  LET told == IF viewOf(p, ~expanded) \in e.subscribed
                THEN onDidChange(e, viewOf(p, ~expanded), IF expanded THEN width ELSE NaN)
                ELSE e
  IN retag(told, p, expanded)

\* setExpanded(expanded), the engine's side: _onDidChange.fire(expanded ?
\* this.width : undefined) reaches the engine's subscription, if there is one
expansionChanged(e, p, expanded, width) ==
  LET told == retag(e, p, expanded)
  IN IF viewOf(p, expanded) \in told.subscribed
       THEN onDidChange(told, viewOf(p, expanded), IF expanded THEN width ELSE NaN)
       ELSE told

\* bound of the body sizes of the panes model, in pixels
MaxBody == 2

\* the container sizes, the sizes passed to addView and the widths a pane
\* holds (NaN: none yet)
PaneTotals == {Px * (2 * headerSize + n) : n \in 0..MaxBody}
PaneSizings ==
  {[type |-> "number", size |-> Px * (headerSize + n)] : n \in 0..MaxBody}
    \cup {[type |-> "distribute"]}
PaneWidths == {Px * (headerSize + n) : n \in 0..MaxBody} \cup {NaN}

\* pane.setExpanded(expanded), the pane holding width
SetExpanded(p, expanded, width) ==
  /\ CommitEngine(IF panes[p].expanded = expanded THEN this
                  ELSE expansionChanged(this, p, expanded, width),
                  "setExpanded", p)
  /\ panes' = [panes EXCEPT ![p] = setExpanded(panes[p], expanded)]
  /\ UNCHANGED <<drags, phase>>

\* the animationTimer of the pane p fires: this.body?.remove()
TimerFires(p) ==
  /\ panes[p].timers > 0
  /\ CommitEngine(this, "timer", p)
  /\ panes' = [panes EXCEPT ![p].body = FALSE, ![p].timers = panes[p].timers - 1]
  /\ UNCHANGED <<drags, phase>>

\* new SplitView(container, { orientation }) and the panes, each constructed
\* expanded or collapsed
InitPanes ==
  /\ views = << >>
  /\ sashes = << >>
  /\ size = NaN
  /\ contentSize = NaN
  /\ proportions = NoProportions
  /\ fresh = FALSE
  /\ subscribed = {}
  /\ receipts = 0
  /\ received = << >>
  /\ phase = "Idle"
  /\ drags = << >>
  /\ last = [op |-> "new", threw |-> FALSE]
  /\ panes \in [PaneIds -> {newPane(TRUE), newPane(FALSE)}]

\* SpecPanes: an engine of panes; the panes expand and collapse and their
\* timers fire between drags
NextPanes ==
  \/ drags = << >> /\ \E total \in PaneTotals : Layout(total)
  \/ drags = << >> /\ \E p \in PaneIds, index \in 0..Len(views), sizing \in PaneSizings :
                         AddView(viewOf(p, panes[p].expanded), sizing, index, FALSE)
  \/ drags = << >> /\ \E index \in 0..(Len(views) - 1) : RemoveView(index, "none")
  \/ drags = << >> /\ DistributeViewSizes
  \/ drags = << >> /\ \E p \in PaneIds, expanded \in BOOLEAN, width \in PaneWidths :
                         SetExpanded(p, expanded, width)
  \/ \E p \in PaneIds : TimerFires(p)
  \/ Pointer

SpecPanes == InitPanes /\ [][NextPanes]_vars

(***************************************************************************)
(* Vocabulary of the properties                                            *)
(***************************************************************************)
Completed(op) == last.op = op /\ ~last.threw

SumOfMinimums(vs) == SumSeq([k \in DOMAIN vs |-> minimumSize(vs[k].view)])
SumOfMaximums(vs) == SumSeq([k \in DOMAIN vs |-> maximumSize(vs[k].view)])

\* minimumSize <= size <= maximumSize, or size = 0 for a view with a snapSize
WithinBounds(item) ==
  \/ /\ GreaterEq(item.size, minimumSize(item.view))
     /\ GreaterEq(maximumSize(item.view), item.size)
  \/ item.size = 0 /\ hasSnap(item.view)

AllWithinBounds(vs) == \A k \in DOMAIN vs : WithinBounds(vs[k])
NoSnapViews(vs) == \A k \in DOMAIN vs : ~hasSnap(vs[k].view)
FiniteBounds(vs) == \A k \in DOMAIN vs : IsFinite(maximumSize(vs[k].view))

(***************************************************************************)
(* Vocabulary of the claims                                                *)
(***************************************************************************)
\* an engine with the given items whose sizes are settled and snapshotted
settled(vs) ==
  [views |-> vs, sashes |-> [k \in 1..(Len(vs) - 1) |-> newSash],
   size |-> ContentOf(vs), contentSize |-> ContentOf(vs),
   proportions |-> [num |-> SizesOf(vs), den |-> ContentOf(vs)],
   threw |-> FALSE, fresh |-> TRUE,
   subscribed |-> {vs[k].view : k \in DOMAIN vs}, receipts |-> 0, received |-> << >>]

\* Math.round(this._proportions[i] * size) for every item, 1-based
proportionalSizes == [k \in DOMAIN views |-> proportionalSize(proportions, k - 1, size)]

\* the operations the claims call settle operations, container layout aside
Settle == {"addView", "removeView", "moveView", "resizeView", "mouseup", "onDidChange"}

(***************************************************************************)
(* C1: after every public operation that completes (addView, removeView,   *)
(* moveView, resizeView, layout, a pointer-move of a drag, an item change  *)
(* notification) every item's size is within [minimumSize, maximumSize],   *)
(* or is 0 for an item that declares a snapSize.                           *)
(***************************************************************************)
C1_SizesWithinBounds ==
  (/\ last.op \in {"addView", "removeView", "moveView", "resizeView", "layout",
                   "mousemove", "onDidChange"}
   /\ ~last.threw)
    => AllWithinBounds(views)

(***************************************************************************)
(* C2: for items with finite minimum and maximum sizes, after layout(total)*)
(* completes the item sizes sum to total exactly, unless total is smaller  *)
(* than the sum of the items' minimums.                                    *)
(***************************************************************************)
C2_LayoutSumExact ==
  (Completed("layout") /\ views # << >> /\ FiniteBounds(views))
    => (ContentOf(views) = size \/ Less(size, SumOfMinimums(views)))

(***************************************************************************)
(* C3: after every settle operation other than layout (addView without     *)
(* skipLayout, removeView, moveView, resizeView, drag end, an item change  *)
(* notification) the item sizes sum to the container size whenever the     *)
(* container size lies between the sum of the minimums and the sum of the  *)
(* maximums.                                                               *)
(***************************************************************************)
C3_SettleSumExact ==
  (/\ last.op \in Settle
   /\ ~last.threw
   /\ views # << >>
   /\ GreaterEq(size, SumOfMinimums(views))
   /\ GreaterEq(SumOfMaximums(views), size))
    => ContentOf(views) = size

(***************************************************************************)
(* C4: when no item declares a snapSize and the total passed to layout is  *)
(* smaller than the sum of the minimums, layout completes without error    *)
(* and leaves every item exactly at its minimum, so the allocated total is *)
(* the sum of the minimums.                                                *)
(***************************************************************************)
C4_StarvedLayout ==
  (last.op = "layout" /\ NoSnapViews(views) /\ Less(size, SumOfMinimums(views)))
    => /\ ~last.threw
       /\ \A k \in DOMAIN views : views[k].size = minimumSize(views[k].view)
       /\ ContentOf(views) = SumOfMinimums(views)

(***************************************************************************)
(* C5: after any sequence of addView, removeView and moveView calls with   *)
(* valid indexes the number of sashes is max(itemCount - 1, 0).            *)
(***************************************************************************)
C5_SashCount == Len(sashes) = (IF Len(views) > 1 THEN Len(views) - 1 ELSE 0)

\* a removal that left two items and one sash behind
C5_Witness ==
  Completed("removeView") /\ Len(views) = 2 /\ Len(sashes) = 1

(***************************************************************************)
(* C6: after addView, removeView, moveView, resizeView and layout the      *)
(* proportions array has exactly one entry per item, and layout never      *)
(* computes the sizes from proportions saved before the most recent add or *)
(* remove.                                                                 *)
(***************************************************************************)
C6_ProportionsPerItem ==
  /\ last.op \in {"addView", "removeView", "moveView", "resizeView", "layout"}
       => Len(proportions.num) = Len(views)
  /\ (last.op = "layout" /\ views # << >>) => fresh

(***************************************************************************)
(* C7: proportions saved with a content size > 0 are size[i] / content     *)
(* size, so each lies in [0, 1] and they sum to 1; a save with content     *)
(* size 0 leaves the stored proportions unchanged.                         *)
(***************************************************************************)
C7_SavedProportions ==
  /\ saveProportions(this).proportions =
       IF Greater(contentSize, 0) THEN [num |-> SizesOf(views), den |-> contentSize]
       ELSE proportions
  /\ proportions.den > 0
       => /\ SumSeq(proportions.num) = proportions.den
          /\ \A k \in DOMAIN proportions.num :
               proportions.num[k] >= 0 /\ proportions.num[k] <= proportions.den

(***************************************************************************)
(* C8: layout leaves the stored proportions unchanged, so layout(s1)       *)
(* followed by layout(s2) gives the sizes of layout(s2) alone.             *)
(***************************************************************************)
C8_LayoutKeepsProportions ==
  \A s1 \in Totals, s2 \in Totals :
    /\ layout(this, s1).proportions = proportions
    /\ layout(layout(this, s1), s2).views = layout(this, s2).views

\* a completed layout of two items at a total other than the snapshotted one,
\* which gave sizes other than the snapshotted ones
C8_Witness ==
  /\ Completed("layout")
  /\ Len(views) = 2
  /\ proportions.den > 0
  /\ size # proportions.den
  /\ SizesOf(views) # proportions.num
  /\ AllWithinBounds(views)

(***************************************************************************)
(* C9: on a container resize each item's new size is                       *)
(* round(proportion[i] * newTotal) whenever these values lie within the    *)
(* items' bounds and sum to newTotal; two items of proportions [0.5, 0.5]  *)
(* resized from total 200 to total 400 both become 200.                    *)
(***************************************************************************)
C9_ProportionalLayout ==
  /\ (/\ Completed("layout")
      /\ \A k \in DOMAIN views :
           WithinBounds([view |-> views[k].view, size |-> proportionalSizes[k]])
      /\ SumSeq(proportionalSizes) = size)
       => SizesOf(views) = proportionalSizes
  /\ SizesOf(layout(settled(<<[view |-> 5, size |-> Px * 100],
                              [view |-> 6, size |-> Px * 100]>>), Px * 400).views)
       = <<Px * 200, Px * 200>>

\* a completed layout of unequal proportions at a total other than the
\* snapshotted one, every rounded share within bounds
C9_Witness ==
  /\ Completed("layout")
  /\ Len(views) >= 2
  /\ proportions.den > 0
  /\ size # proportions.den
  /\ proportions.num[1] # proportions.num[2]
  /\ \A k \in DOMAIN views :
       WithinBounds([view |-> views[k].view, size |-> proportionalSizes[k]])
  /\ SumSeq(proportionalSizes) = size
  /\ SizesOf(views) = proportionalSizes

(***************************************************************************)
(* C10: dragging the single sash between two items by a requested delta    *)
(* from the baseline (b0, b1) gives (b0 + d, b1 - d), d the delta clamped   *)
(* into [max(min0 - b0, b1 - max1), min(b1 - min1, max0 - b0)]; from       *)
(* 100/100 with minimums 50/50 a drag of +30 gives 130/70, and 110/90 when *)
(* item 1 has minimum 90.                                                  *)
(***************************************************************************)
dragDelta(requested, b0, b1, v0, v1) ==
  clamp(requested,
        MathMax(Minus(minimumSize(v0), b0), Minus(b1, maximumSize(v1))),
        MathMin(Minus(b1, minimumSize(v1)), Minus(maximumSize(v0), b0)))

\* the sizes the claim gives for the pointer at x
draggedSizes(x) ==
  LET b0 == drags[1].sizes[1]
      b1 == drags[1].sizes[2]
      d == dragDelta(x - drags[1].start, b0, b1, views[1].view, views[2].view)
  IN <<Plus(b0, d), Minus(b1, d)>>

\* the single drag of two items
TwoItemDrag == Len(drags) = 1 /\ Len(views) = 2 /\ Len(drags[1].sizes) = 2

\* the drag of scenarios B and C: baseline 100/100, the pointer moved by +30
scenarioDrag(v0, v1) ==
  SizesOf(mousemove(settled(<<[view |-> v0, size |-> Px * 100],
                              [view |-> v1, size |-> Px * 100]>>),
                    [index |-> 0, sizes |-> <<Px * 100, Px * 100>>, start |-> Px * 10],
                    Px * 40).views)

C10_DragClamp ==
  [][\A x \in Coords : (TwoItemDrag /\ MouseMove(x)) => SizesOf(views') = draggedSizes(x)]_vars

\* the baseline of the drag has neither a snapping item nor a size out of
\* bounds, and sums to the container size
settledBaseline ==
  /\ NoSnapViews(views)
  /\ IsFinite(size)
  /\ SumSeq(drags[1].sizes) = size
  /\ \A k \in 1..2 : WithinBounds([view |-> views[k].view, size |-> drags[1].sizes[k]])

\* C10, amended: the same, for a baseline that is within bounds and sums to
\* the container size, of items that declare no snapSize
C10_DragClampSettled ==
  /\ scenarioDrag(5, 6) = <<Px * 130, Px * 70>>
  /\ scenarioDrag(5, 7) = <<Px * 110, Px * 90>>
  /\ [][\A x \in Coords :
         (TwoItemDrag /\ settledBaseline /\ MouseMove(x))
           => SizesOf(views') = draggedSizes(x)]_vars

\* a pointer-move that grew item 0 until item 1 reached its minimum
C10_Witness ==
  /\ Completed("mousemove")
  /\ TwoItemDrag
  /\ settledBaseline
  /\ views[1].size > drags[1].sizes[1]
  /\ minimumSize(views[2].view) > 0
  /\ views[2].size = minimumSize(views[2].view)

(***************************************************************************)
(* C11: on a settled sequence with slack on both sides of the sash (no     *)
(* bound is reached), resize(index, delta) followed by                     *)
(* resize(index, -delta), each from the then-current sizes, restores every *)
(* item's size.                                                            *)
(***************************************************************************)
\* every size within bounds and the sizes summing to the container size
Settled == AllWithinBounds(views) /\ IsFinite(size) /\ ContentOf(views) = size

\* the requested deltas of the model
Deltas == {Px * d : d \in (0 - MaxCoord)..MaxCoord}

\* resize(index, delta) with the default baseline, the current sizes
resizeNow(vs, index, delta) == resize(vs, index, delta, SizesOf(vs), << >>, << >>)

\* the items next to sash index take delta without reaching a bound
Slack(index, delta) ==
  LET up == views[index + 1]
      down == views[index + 2]
  IN /\ up.size + delta >= minimumSize(up.view)
     /\ GreaterEq(maximumSize(up.view), up.size + delta)
     /\ down.size - delta >= minimumSize(down.view)
     /\ GreaterEq(maximumSize(down.view), down.size - delta)

C11_ResizeRoundTrip ==
  \A index \in 0..(Len(views) - 2), delta \in Deltas :
    (Settled /\ Slack(index, delta))
      => resizeNow(resizeNow(views, index, delta), index, 0 - delta) = views

\* a settled sequence of three items whose second sash has slack both ways
\* for a shrinking delta that resize applies
C11_Witness ==
  /\ Len(views) = 3
  /\ Settled
  /\ \E delta \in Deltas :
       /\ delta < 0
       /\ Slack(1, delta)
       /\ Slack(1, 0 - delta)
       /\ resizeNow(views, 1, delta) # views

(***************************************************************************)
(* C12: adding an item and removing it again at once (no layout call in    *)
(* between) leaves the size of every remaining item and the number of      *)
(* sashes as they were, for every insertion index, every sizing of the     *)
(* added item and every settled starting distribution.                     *)
(***************************************************************************)
\* the engine after addView(v, sizing, index) and removeView(index)
addedThenRemoved(v, sizing, index) ==
  removeView(addView(this, v, sizing, index, FALSE), index, "none")

C12_AddRemoveRestores ==
  \A v \in ViewIds \ Managed(views), index \in 0..Len(views) :
    \A sizing \in Sizings(this) :
      Settled
        => /\ SizesOf(addedThenRemoved(v, sizing, index).views) = SizesOf(views)
           /\ Len(addedThenRemoved(v, sizing, index).sashes) = Len(sashes)

(***************************************************************************)
(* C13: distributeViewSizes applied twice in succession is idempotent:     *)
(* when all flexible items are within their bounds, the second call        *)
(* changes no item's size.                                                 *)
(***************************************************************************)
FlexibleWithinBounds(vs) ==
  \A k \in DOMAIN vs :
    isFlexible(vs[k].view) => /\ GreaterEq(vs[k].size, minimumSize(vs[k].view))
                              /\ GreaterEq(maximumSize(vs[k].view), vs[k].size)

distributedOnce == distributeViewSizes(this)
distributedTwice == distributeViewSizes(distributedOnce)

C13_DistributeIdempotent ==
  FlexibleWithinBounds(views)
    => SizesOf(distributedTwice.views) = SizesOf(distributedOnce.views)

(***************************************************************************)
(* C14: adding n items one after another with distribute sizing, each with *)
(* the same minimum m and no maximum, into a container already laid out at *)
(* total T >= n*m leaves every item with size floor(T/n), the remainder    *)
(* T - n*floor(T/n) going to the last item; three items with minimum 50    *)
(* and T = 300 get exactly 100 each.                                       *)
(***************************************************************************)
equalShare == Px * ((size \div Px) \div Len(views))

C14_EqualDistribution ==
  (views # << >> /\ GreaterEq(size, SumOfMinimums(views)))
    => /\ \A k \in 1..(Len(views) - 1) : views[k].size = equalShare
       /\ views[Len(views)].size = equalShare + (size - Len(views) * equalShare)

C14_Witness ==
  /\ size = Px * 300
  /\ Managed(views) = EqualViewIds
  /\ \A k \in DOMAIN views : views[k].size = Px * 100

(***************************************************************************)
(* C15: at most one drag session is active at any time: for every sequence *)
(* of pointer-down, pointer-move and pointer-up events on the sashes,      *)
(* including a second pointer-down before the pointer-up of the first, a   *)
(* pointer-move is never handled by more than one drag's move handler.     *)
(* drags holds one entry for every registered mousemove listener.          *)
(***************************************************************************)
C15_OneMoveHandler == last.op = "mousemove" => Len(drags) <= 1

(***************************************************************************)
(* C16: the drag protocol is Idle -> Dragging -> Idle: pointer-move events *)
(* change item sizes only between a pointer-down on a sash and the next    *)
(* pointer-up; after that pointer-up no pointer-move changes any size      *)
(* until another pointer-down occurs.  phase is Dragging from a mousedown  *)
(* on a sash to the next mouseup and Idle otherwise.                       *)
(***************************************************************************)
C16_DragProtocol ==
  [][(phase = "Idle" /\ \E x \in Coords : MouseMove(x)) => views' = views]_vars

\* an idle pointer-move on an engine whose sash a drag would move
C16_Witness ==
  /\ phase = "Idle"
  /\ last.op = "unheard mousemove"
  /\ Len(sashes) >= 1
  /\ \E x \in Coords :
       mousemove(this, [index |-> 0, sizes |-> SizesOf(views), start |-> 0], x).views # views

(***************************************************************************)
(* C17: on pointer-up the engine first snapshots proportions from the      *)
(* sizes left by the last pointer-move and only then emits the drag-end    *)
(* notification, so a listener of the drag-end notification always reads   *)
(* proportions equal to current size / current content size for every      *)
(* item.  _onDidSashEnd fires as the last statement of the end listener,   *)
(* in the state the mouseup leaves.                                        *)
(***************************************************************************)
\* this._proportions[i] = this.views[i].size / (sum of the sizes), every i
proportionsAreCurrent ==
  /\ Len(proportions.num) = Len(views)
  /\ proportions.den # 0
  /\ IsFinite(ContentOf(views))
  /\ ContentOf(views) # 0
  /\ \A k \in DOMAIN views :
       proportions.num[k] * ContentOf(views) = views[k].size * proportions.den

C17_DragEndProportions == last.op = "mouseup" => proportionsAreCurrent

(***************************************************************************)
(* C18: every settle operation (addView with any sizing, removeView with   *)
(* or without sizing, moveView, resizeView, layout, one pointer-move of a  *)
(* drag, an item change notification) invokes each managed item's layout   *)
(* receiver exactly once, passing the item's final allocated size.         *)
(* receipts counts the layoutViews calls of the last operation, each of    *)
(* which invokes every item's receiver once; received holds the sizes the  *)
(* last of them passed.                                                    *)
(***************************************************************************)
C18_LayoutReceiverOnce ==
  (/\ last.op \in {"addView", "removeView", "moveView", "resizeView", "layout",
                   "mousemove", "onDidChange"}
   /\ ~last.threw
   /\ views # << >>)
    => (receipts = 1 /\ received = SizesOf(views))

(***************************************************************************)
(* C19: given items with integer minimum and maximum sizes and integer     *)
(* container totals, every size allocated to an item and passed to its     *)
(* layout receiver is an integer, after any sequence of operations         *)
(* including addView with split sizing.  Sizes are counted in half pixels. *)
(***************************************************************************)
IsInteger(x) == IsFinite(x) /\ x % Px = 0

C19_IntegerSizes ==
  IsInteger(size)
    => /\ \A k \in DOMAIN views : IsInteger(views[k].size)
       /\ \A k \in DOMAIN received : IsInteger(received[k])

(***************************************************************************)
(* C20: removeView(index) returns the removed item and tears down the      *)
(* engine's subscription to it: a size-change notification emitted by that *)
(* item at any later time, while it is not re-added, changes no remaining  *)
(* item's size and no proportion.  subscribed holds the views whose        *)
(* onDidChange subscription is live.                                       *)
(***************************************************************************)
C20_RemovedViewSilent ==
  [][/\ subscribed' = Managed(views')
     /\ \A v \in ViewIds \ Managed(views), requested \in Totals \cup {NaN} :
          OnDidChange(v, requested) => (views' = views /\ proportions' = proportions)]_vars

\* a removeView has left items behind and the removed view unsubscribed
C20_Witness ==
  /\ Completed("removeView")
  /\ views # << >>
  /\ subscribed = Managed(views)
  /\ ViewIds \ subscribed # {}

(***************************************************************************)
(* C21: moveView(from, to) on a settled layout keeps the set of managed    *)
(* items and the sash count unchanged, places the moved item at position   *)
(* to, and the moved item's size after the move equals its size before.    *)
(***************************************************************************)
moved(from, to) == moveView(this, from, to)

NoneCollapsed(vs) == \A k \in DOMAIN vs : GreaterEq(vs[k].size, minimumSize(vs[k].view))

requestedSize(index, s) ==
  clamp(MathRound(s), minimumSize(views[index + 1].view),
        MathMin(maximumSize(views[index + 1].view), size))

\* what the items other than the one at index can give up, and can take
othersCanShrink(index) ==
  SumSeq([k \in DOMAIN views |->
            IF k = index + 1 THEN 0 ELSE Minus(views[k].size, minimumSize(views[k].view))])
othersCanGrow(index) ==
  SumSeq([k \in DOMAIN views |->
            IF k = index + 1 THEN 0 ELSE Minus(maximumSize(views[k].view), views[k].size)])

othersAbsorb(index, s) ==
  /\ GreaterEq(othersCanShrink(index), Minus(requestedSize(index, s), views[index + 1].size))
  /\ GreaterEq(othersCanGrow(index), Minus(views[index + 1].size, requestedSize(index, s)))

C22_ResizeViewTakesEffect ==
  \A index \in 0..(Len(views) - 1), s \in Totals :
    (Settled /\ NoneCollapsed(views) /\ othersAbsorb(index, s))
      => getViewSize(resizeView(this, index, s), index) = requestedSize(index, s)

(***************************************************************************)
(* C23: out-of-range indexes on the query and resize-by-index operations   *)
(* are not errors and change nothing: getViewSize(index) with index < 0 or *)
(* index >= itemCount returns -1, resizeView with such an index leaves     *)
(* every size and the proportions unchanged, and the internal resize with  *)
(* an index outside [0, itemCount] is a no-op.                             *)
(***************************************************************************)
\* the indexes below 0 and the indexes from n upwards
IndexesBelow == (0 - MaxOverrun)..(0 - 1)
IndexesFrom(n) == n..(n + MaxOverrun)

C23_OutOfRangeIndexes ==
  /\ \A index \in IndexesBelow \cup IndexesFrom(Len(views)) :
       /\ getViewSize(this, index) = 0 - Px
       /\ \A s \in Totals : resizeView(this, index, s) = this
  /\ \A index \in IndexesBelow \cup IndexesFrom(Len(views) + 1), delta \in Deltas :
       /\ ~resizeThrows(views, index)
       /\ resize(views, index, delta, SizesOf(views), << >>, << >>) = views

\* two settled items: an index in range is answered and resized, the index 2
\* is not
C23_Witness ==
  /\ Len(views) = 2
  /\ Settled
  /\ getViewSize(this, 1) = views[2].size
  /\ getViewSize(this, 2) = 0 - Px
  /\ \E s \in Totals : resizeView(this, 0, s).views # views

(***************************************************************************)
(* C24: no engine operation (addView with or without a sizing argument,    *)
(* removeView, moveView, resizeView, getViewSize, layout, a pointer drag,  *)
(* an item change notification) ends in a thrown error for any index or    *)
(* size argument when the items are well-formed (minimum <= maximum);      *)
(* infeasible or invalid requests are clamped or ignored instead.          *)
(***************************************************************************)
C24_NeverThrows ==
  /\ ~last.threw
  /\ \A total \in Totals : ~layout(this, total).threw
  /\ \A index \in 0..(Len(views) + MaxOverrun) :
       /\ ~removeView(this, index, "none").threw
       /\ \A to \in 0..(Len(views) - 1) : ~moveView(this, index, to).threw
       /\ \A s \in Totals : ~resizeView(this, index, s).threw
  /\ \A v \in ViewIds \ Managed(views), index \in 0..Len(views) :
       \A sizing \in Sizings(this) \cup {[type |-> "undefined"]} :
         ~addView(this, v, sizing, index, FALSE).threw
  /\ \A v \in ViewIds, s \in Totals \cup {NaN} : ~onDidChange(this, v, s).threw

(***************************************************************************)
(* C25: when a managed item emits a size-change notification requesting    *)
(* size s, the request is routed through the engine's resize path: the     *)
(* reporting item ends with s clamped to its own [minimum, maximum]        *)
(* whenever its siblings together have enough slack, the siblings absorb   *)
(* the difference before the reporting item does, and no sibling is pushed *)
(* outside its own bounds.                                                 *)
(***************************************************************************)
\* s clamped for the item at index
reportedSize(index, s) ==
  clamp(s, minimumSize(views[index + 1].view), maximumSize(views[index + 1].view))

siblingsAbsorb(index, s) ==
  /\ GreaterEq(othersCanShrink(index), Minus(reportedSize(index, s), views[index + 1].size))
  /\ GreaterEq(othersCanGrow(index), Minus(views[index + 1].size, reportedSize(index, s)))

notified(index, s) == onDidChange(this, views[index + 1].view, s)

sideOf(index, p) == IF p <= index THEN 0..index ELSE (index + 1)..(Len(views) - 1)

\* the item can move no further: at its maximum when its side grows, at its
\* minimum (or collapsed) when its side shrinks
AtBound(item, grows) ==
  IF grows THEN item.size = maximumSize(item.view)
  ELSE item.size = minimumSize(item.view) \/ (hasSnap(item.view) /\ item.size = 0)

\* the side of p grows when the sash moves away from it
sideGrows(index, p, delta) == IF p <= index THEN delta > 0 ELSE delta < 0

\* in the result r of a resize at the sash index, the item p changed only
\* when every other item of its side could move no further
absorbsLast(r, index, p, delta) ==
  r[p + 1].size # views[p + 1].size
    => \A q \in sideOf(index, p) \ {p} : AtBound(r[q + 1], sideGrows(index, p, delta))

\* another item of the side of p changed only when p could move no further
absorbsFirst(r, index, p, delta) ==
  (\E q \in sideOf(index, p) \ {p} : r[q + 1].size # views[q + 1].size)
    => AtBound(r[p + 1], sideGrows(index, p, delta))

resizeWithLow(index, delta, p) == resize(views, index, delta, SizesOf(views), <<p>>, << >>)
resizeWithHigh(index, delta, p) == resize(views, index, delta, SizesOf(views), << >>, <<p>>)

C26_HighLastLowFirst ==
  \A index \in 0..(Len(views) - 2), p \in 0..(Len(views) - 1), delta \in Deltas :
    (Settled /\ NoneCollapsed(views))
      => /\ absorbsLast(resizeWithHigh(index, delta, p), index, p, delta)
         /\ absorbsFirst(resizeWithLow(index, delta, p), index, p, delta)

\* C26 as amended: in resize, when priority indexes are supplied,
\* high-priority items are processed first on their side and absorb the delta
\* first, and low-priority items are processed last on their side, so they
\* absorb the delta last and change least.
C26_HighFirstLowLast ==
  \A index \in 0..(Len(views) - 2), p \in 0..(Len(views) - 1), delta \in Deltas :
    (Settled /\ NoneCollapsed(views))
      => /\ absorbsFirst(resizeWithHigh(index, delta, p), index, p, delta)
         /\ absorbsLast(resizeWithLow(index, delta, p), index, p, delta)

\* three settled items and a move of the second sash that the low priority of
\* the item next to it turns into a change of the item before it
C26_Witness ==
  /\ Len(views) = 3
  /\ Settled
  /\ NoneCollapsed(views)
  /\ \E delta \in Deltas :
       /\ resizeWithLow(1, delta, 1) # resizeNow(views, 1, delta)
       /\ resizeWithLow(1, delta, 1)[2].size = views[2].size
       /\ resizeWithLow(1, delta, 1)[1].size # views[1].size

(***************************************************************************)
(* C27: a sash drag ripples through neighbours in order of distance from   *)
(* the sash: on each side, an item farther from the dragged sash changes   *)
(* size only if every item between it and the sash on that side has        *)
(* reached its bound in the direction of the change (minimum when          *)
(* shrinking, maximum when growing).                                       *)
(***************************************************************************)
\* the items between the item q and the sash at index, on the side of q
nearerThan(index, q) == IF q <= index THEN (q + 1)..index ELSE (index + 1)..(q - 1)

\* against the baseline sizes, every item that changed has all nearer items
\* at their bound in the direction of its change
ripples(vs, index, sizes) ==
  \A q \in 0..(Len(vs) - 1) :
    vs[q + 1].size # sizes[q + 1]
      => \A p \in nearerThan(index, q) : AtBound(vs[p + 1], vs[q + 1].size > sizes[q + 1])

C27_DragRipples ==
  (last.op = "mousemove" /\ ~last.threw /\ Len(drags) = 1)
    => ripples(views, drags[1].index, drags[1].sizes)

(***************************************************************************)
(* C28: distributeEmptySpace reconciles the difference between container   *)
(* total and content size from the last item toward the first: an item     *)
(* changes size only if every item after it is already at its bound in the *)
(* direction of the difference, and on return either the sizes sum to the  *)
(* container total or every item is at that bound.                         *)
(***************************************************************************)
spaceDistributed == distributeEmptySpace(views, size)

\* the difference is positive: the items grow
spaceGrows == Greater(size, ContentOf(views))

C28_DistributeEmptySpace ==
  /\ \A k \in DOMAIN views :
       spaceDistributed[k].size # views[k].size
         => \A j \in (k + 1)..Len(views) : AtBound(spaceDistributed[j], spaceGrows)
  /\ \/ ContentOf(spaceDistributed) = size
     \/ \A k \in DOMAIN views : AtBound(spaceDistributed[k], spaceGrows)

(***************************************************************************)
(* C29: a pointer-move of a sash drag never changes the total of the item  *)
(* sizes: for items without snap size and a baseline within bounds, the    *)
(* sum of the sizes on the up side grows by exactly the amount the sum on  *)
(* the down side shrinks, so the total after the move equals the baseline  *)
(* total.                                                                  *)
(***************************************************************************)
\* the items with the sizes captured at the mousedown of the drag
baselineItems == [k \in DOMAIN views |-> [view |-> views[k].view, size |-> drags[1].sizes[k]]]

\* the sum of the sizes of the items 0..index
upSum(vs, index) == SumSeq(SizesOf(SubSeq(vs, 1, index + 1)))
downSum(vs, index) == SumSeq(SizesOf(SubSeq(vs, index + 2, Len(vs))))

C29_DragKeepsTotal ==
  (/\ last.op = "mousemove" /\ ~last.threw
   /\ Len(drags) = 1
   /\ NoSnapViews(views)
   /\ AllWithinBounds(baselineItems))
    => /\ Minus(upSum(views, drags[1].index), upSum(baselineItems, drags[1].index))
            = Minus(downSum(baselineItems, drags[1].index), downSum(views, drags[1].index))
       /\ ContentOf(views) = ContentOf(baselineItems)

(***************************************************************************)
(* C30: within one drag session with no other operation interleaved, the   *)
(* sizes after a pointer-move depend only on the baseline sizes captured   *)
(* at pointer-down and on the current pointer coordinate, not on the       *)
(* earlier pointer-moves: moving the pointer back to its start coordinate  *)
(* restores the baseline sizes exactly.                                    *)
(***************************************************************************)
\* the single drag session: no second mousedown, the items of its mousedown
InDragSession == Len(drags) = 1 /\ Len(drags[1].sizes) = Len(views)

\* the sizes after a pointer-move to x, from the sizes the earlier
\* pointer-moves of the session left
movedTo(x) == SizesOf(mousemove(this, drags[1], x).views)

\* the sizes after a pointer-move to x as the first one after the mousedown
firstMovedTo(x) == SizesOf(mousemove([this EXCEPT !.views = baselineItems], drags[1], x).views)

C30_DragFromBaseline ==
  InDragSession =>
    \A x \in Coords :
      /\ movedTo(x) = firstMovedTo(x)
      /\ x = drags[1].start => movedTo(x) = drags[1].sizes

(***************************************************************************)
(* C31: every pointer-move handled during a drag resizes against a         *)
(* baseline and a sash index that still match the current item sequence:   *)
(* for any interleaving of addView/removeView calls or item change         *)
(* notifications between pointer-down and pointer-up, the baseline has one *)
(* entry per current item and the sash index designates the same pair of   *)
(* adjacent items that was grabbed.                                        *)
(***************************************************************************)
C31_DragMatchesSequence ==
  (last.op = "mousemove" /\ drags # << >>)
    => \A k \in DOMAIN drags :
         /\ Len(drags[k].sizes) = Len(views)
         /\ pairAt(views, drags[k].index) = drags[k].grabbed

(***************************************************************************)
(* C32: when an item is added with an explicit size s within its own       *)
(* bounds to a settled layout, the new item is the last to absorb the      *)
(* correction: the existing items shrink first, starting from the end of   *)
(* the sequence, and the new item ends with exactly s whenever the         *)
(* existing items together have at least s of slack above their minimums.  *)
(***************************************************************************)
\* the items after addView(v, s, index)
addedAt(v, s, index) == addView(this, v, [type |-> "number", size |-> s], index, FALSE).views

\* the positions (1-based) of the existing items after an add at index
existingAfter(index) == (1..(Len(views) + 1)) \ {index + 1}

\* the existing item that the add at index moved to position p
before(index, p) == IF p <= index THEN views[p] ELSE views[p - 1]

\* what the existing items can give up above their minimums
slackAboveMinimums == Minus(ContentOf(views), SumOfMinimums(views))

\* an explicit size within the bounds of v
OwnSizes(v) == {s \in Totals : s >= minimumSize(v) /\ GreaterEq(maximumSize(v), s)}

\* the existing items shrink from the end of the sequence: one shrinks only
\* when every existing item after it can shrink no further
shrinkFromEnd(r, index) ==
  \A p \in existingAfter(index), q \in existingAfter(index) :
    (p < q /\ Less(r[p].size, before(index, p).size)) => AtBound(r[q], FALSE)

Constructed == last.op = "new"

\* layout with the descriptor's size
restored == layout(this, size)

C33_RestoreRoundTrip ==
  (Constructed /\ AllWithinBounds(views) /\ ContentOf(views) = size)
    => /\ ~restored.threw
       /\ SizesOf(restored.views) = SizesOf(views)

(***************************************************************************)
(* C34: a collapsed pane reports minimumSize == maximumSize == header size *)
(* (22), so while it stays collapsed its allocated size after any settle   *)
(* (layout, sash drag, distributeViewSizes, add/remove of siblings) is     *)
(* exactly the header size, and collapsing an expanded pane hands the      *)
(* freed space to its siblings.                                            *)
(***************************************************************************)
\* the operations C34 calls a settle
PaneSettles ==
  {"layout", "mousemove", "distributeViewSizes", "addView", "removeView", "setExpanded"}

\* the positions of the collapsed panes among the items
collapsedItems(vs) == {k \in DOMAIN vs : vs[k].view \in PaneIds}

\* the engine after the item at position k, an expanded pane, collapsed
collapsedAt(k) == expansionChanged(this, paneOf(views[k].view), FALSE, NaN).views

\* the sizes of the items other than the one at position k
siblingsSize(vs, k) == SumSeq([j \in DOMAIN vs |-> IF j = k THEN 0 ELSE vs[j].size])

C34_CollapsedPaneHeaderSize ==
  /\ \A p \in PaneIds :
       /\ minimumSize(viewOf(p, FALSE)) = Px * headerSize
       /\ maximumSize(viewOf(p, FALSE)) = Px * headerSize
  /\ (last.op \in PaneSettles /\ ~last.threw)
       => \A k \in collapsedItems(views) : views[k].size = Px * headerSize
  /\ \A k \in DOMAIN views :
       (/\ views[k].view \in PaneViewIds \ PaneIds
        /\ views[k].view \in subscribed
        /\ Settled
        /\ GreaterEq(othersCanGrow(k - 1), Minus(views[k].size, Px * headerSize)))
         => /\ collapsedAt(k)[k].size = Px * headerSize
            /\ Minus(siblingsSize(collapsedAt(k), k), siblingsSize(views, k))
                 = Minus(views[k].size, Px * headerSize)

(***************************************************************************)
(* C35: setExpanded(v) with v equal to the current state emits nothing and *)
(* changes nothing; with a different v it updates the expansion state      *)
(* before emitting, then emits the size-change notification and after it   *)
(* the expansion-state notification, so the engine handling the size       *)
(* change already reads the pane's new minimum and maximum.                *)
(***************************************************************************)
\* the engine's fields and the pane p are as they were
nothingChanged(p) ==
  /\ <<views, sashes, size, contentSize, proportions, subscribed>>'
       = <<views, sashes, size, contentSize, proportions, subscribed>>
  /\ panes'[p].expanded = panes[p].expanded
  /\ panes'[p].body = panes[p].body
  /\ panes'[p].timers = panes[p].timers

\* the item of the pane p holds a size within the bounds of the expansion
\* state, if the engine listens to the pane and held a finite size for it
readsNewBounds(p, expanded) ==
  \A k \in DOMAIN views :
    (/\ views[k].view = viewOf(p, ~expanded)
     /\ views[k].view \in subscribed
     /\ IsFinite(size)
     /\ \A j \in DOMAIN views : IsFinite(views[j].size))
      => /\ views'[k].view = viewOf(p, expanded)
         /\ GreaterEq(views'[k].size, minimumSize(viewOf(p, expanded)))
         /\ GreaterEq(maximumSize(viewOf(p, expanded)), views'[k].size)

C35_SetExpanded ==
  [][\A p \in PaneIds, expanded \in BOOLEAN, width \in PaneWidths :
       SetExpanded(p, expanded, width)
         => IF panes[p].expanded = expanded
              THEN panes'[p].fired = << >> /\ nothingChanged(p)
              ELSE /\ panes'[p].expanded = expanded
                   /\ Len(panes'[p].fired) = 2
                   /\ panes'[p].fired[1] = [event |-> "onDidChange", isExpanded |-> expanded]
                   /\ panes'[p].fired[2].event = "onDidChangeExpansionState"
                   /\ readsNewBounds(p, expanded)]_vars

\* the engine has handled the collapse of one of its two panes: the pane
\* holds the header size and its sibling the rest
C35_Witness ==
  /\ last.op = "setExpanded"
  /\ ~last.threw
  /\ Len(views) = 2
  /\ IsFinite(size)
  /\ ContentOf(views) = size
  /\ \E k \in DOMAIN views :
       /\ views[k].view \in PaneIds
       /\ views[k].view \in subscribed
       /\ panes[views[k].view].fired = firedBy(FALSE)
       /\ views[k].size = Px * headerSize
       /\ views[3 - k].size > Px * headerSize

(***************************************************************************)
(* C36: the deferred pane-collapse timer never leaves the body in the      *)
(* wrong state: a collapse followed by an expand before the 200 ms timer   *)
(* fires cancels the pending removal and the body stays attached, and for  *)
(* every interleaving of setExpanded calls and timer firings, once no      *)
(* timer is pending the body is attached exactly when the pane is          *)
(* expanded; the timer callback changes no engine size.                    *)
(***************************************************************************)
\* with no timer pending the body of the pane is attached exactly when the
\* pane is expanded
bodyAsExpanded(pane) == pane.timers = 0 => (pane.body <=> pane.expanded)

C36_CollapseTimer ==
  [][/\ \A p \in PaneIds : bodyAsExpanded(panes'[p])
     /\ \A p \in PaneIds, width \in PaneWidths :
          (~panes[p].expanded /\ panes[p].timers > 0 /\ SetExpanded(p, TRUE, width))
            => panes'[p].timers = 0 /\ panes'[p].body
     /\ \A p \in PaneIds :
          TimerFires(p) => views' = views /\ size' = size /\ contentSize' = contentSize]_vars
====
